---- MODULE Spec2Model ----
(***************************************************************************)
(* Model of the SMS contribution intake-and-queue pipeline of mathforge   *)
(* (src/sms/main.py): the /sms webhook handler sms_reply, the subscribers *)
(* table, the Redis list 'tasks' and the background loop process_tasks.   *)
(*                                                                         *)
(* One inbound message is one run of sms_reply.  Runs of several server    *)
(* processes share the database and Redis, and every process starts its   *)
(* own process_tasks thread at startup.  Runs interleave at the            *)
(* calls to the external services (database, Redis, Twilio, OpenAI); the  *)
(* code between two such calls touches only the run's own locals and is   *)
(* part of the step that precedes it.  An exception leaves the handler    *)
(* through `except: db.rollback(); raise` / `finally: db.close()`, which  *)
(* touch only the run's own session, so a failing call and the raise are  *)
(* one step.                                                               *)
(***************************************************************************)
EXTENDS Integers, Sequences, FiniteSets, Bags

\* ------------------------------------------------------------- bounds
\* Number of entries that clients other than sms_reply push onto the list.
MaxForeign == 1
\* Number of inbound messages (runs of sms_reply), numbered by arrival.
MaxMsgs == 2
\* Number of process_tasks loops draining the queue.
NumWorkers == 2
\* Longest message body of the parsing specification.
MaxBodyLen == 4

Msgs == 1..MaxMsgs
Workers == 1..NumWorkers

\* ------------------------------------------------------------- texts
\* A text is a sequence of characters.
Colon == ":"
Whitespace == {" "}
Chars == {"4", "x", " ", ":"}

\* The phone numbers messages come from.
Identities == {"+1555", "+1777"}

\* Bodies of the pipeline specification: a formatted contribution and an
\* unformatted text.
SampleBodies == { <<"4", ":", " ", "x">>, <<"x", "x">> }

RECURSIVE TextsOfLen(_)
TextsOfLen(n) ==
    IF n = 0 THEN { <<>> }
    ELSE { Append(t, c) : t \in TextsOfLen(n - 1), c \in Chars }

\* Bodies of the parsing specification: every text of at most MaxBodyLen characters.
AllBodies == UNION { TextsOfLen(n) : n \in 0..MaxBodyLen }

\* The mutant of Find: the scan runs from the right end and finds the last c.
RECURSIVE FindLast(_, _, _)
FindLast(s, c, i) ==
    IF Len(s) - i + 1 < 1 THEN 0
    ELSE IF s[Len(s) - i + 1] = c THEN Len(s) - i + 1
    ELSE FindLast(s, c, i + 1)

\* s.find(c) scanning from position i; 0 when c does not occur.
RECURSIVE Find(_, _, _)
Find(s, c, i) ==
    IF i > Len(s) THEN 0
    ELSE IF s[i] = c THEN i
    ELSE Find(s, c, i + 1)

\* `':' in Body`
HasColon(s) == Find(s, Colon, 1) # 0

\* Body.split(':', 1): at most one split, at the first colon.
Split1(s) ==
    LET i == Find(s, Colon, 1)
    IN  IF i = 0 THEN << s >>
        ELSE << SubSeq(s, 1, i - 1), SubSeq(s, i + 1, Len(s)) >>

\* The leading whitespace removed.
RECURSIVE LStrip(_)
LStrip(s) ==
    IF s # <<>> /\ Head(s) \in Whitespace THEN LStrip(Tail(s)) ELSE s

\* The trailing whitespace removed.
RECURSIVE RStrip(_)
RStrip(s) ==
    IF s # <<>> /\ s[Len(s)] \in Whitespace THEN RStrip(SubSeq(s, 1, Len(s) - 1)) ELSE s

\* str.strip(): leading and trailing whitespace removed.
Strip(s) == RStrip(LStrip(s))

\* The text a rewriting Clarifier answers with.
Rewritten == <<"y">>

\* resp.choices[0].message.content: what the text-generation service answers to
\* the prompt built from pid and contrib.  The service is external: it may echo
\* the contribution or answer with a text of its own.
ClarifierReplies(pid, contrib) == { Strip(contrib), Rewritten }

\* json.dumps of the task dict: the fields in order, as one encoded string.
JsonDumps(d) == << d.phone, d.problem_id, d.contrib >>

\* An entry of the list that is not JSON.
Malformed == << "{" >>

\* json.loads accepts the string: it is the encoding of a dict with the three fields.
JsonValid(s) == Len(s) = Len(JsonDumps([ phone |-> "", problem_id |-> <<>>, contrib |-> <<>> ]))

\* json.loads: the dict back from the encoded fields.
JsonLoads(s) == [phone |-> s[1], problem_id |-> s[2], contrib |-> s[3]]

\* ------------------------------------------------------------- state
VARIABLES
    subscribers,  \* rows of the table 'subscribers', in insertion order
    queue,        \* the Redis list 'tasks', head first
    outbox,       \* the messages twilio.messages.create has accepted (a bag)
    hs,           \* hs[m]: the run of sms_reply that handles message m
    ws,           \* ws[w]: the process_tasks loop w
    pops,         \* pops[u]: how many blpop calls have returned the item of push u
    pushes        \* the pushes that rpush has completed, oldest first

vars == << subscribers, queue, outbox, hs, ws, pops, pushes >>

\* The name of a push that no run of sms_reply made: the list is shared, any
\* other client of the Redis server can push onto it.
ForeignUid == 0

\* A run of sms_reply before its message has arrived.
IdleHandler ==
    [ pc |-> "idle", From |-> "", Body |-> <<>>, sub |-> "none",
      pid |-> <<>>, contrib |-> <<>>, clarified |-> <<>>,
      result |-> "none", err |-> "none" ]

\* A process_tasks loop about to call blpop.
IdleWorker == [ pc |-> "blpop", item |-> <<>>, uid |-> 0 ]

\* The table outlives the process: at start it is empty or holds rows of
\* earlier subscriptions (one row here).
InitialTables == { <<>> } \cup { << [ phone |-> p, active |-> TRUE ] >> : p \in Identities }

Init ==
    /\ subscribers \in InitialTables
    /\ queue = <<>>
    /\ outbox = EmptyBag
    /\ hs = [ m \in Msgs |-> IdleHandler ]
    /\ ws = [ w \in Workers |-> IdleWorker ]
    /\ pops = [ u \in Msgs \cup { ForeignUid } |-> 0 ]
    /\ pushes = <<>>

\* ------------------------------------------------------------- the table
\* Subscriber(phone=From): active defaults to True.
Subscriber(phone) == [ phone |-> phone, active |-> TRUE ]

\* A mutant of Rows: the lookup without its filter, any row answers it.
RowsAny(tbl, phone) == 1..Len(tbl)

\* db.query(Subscriber).filter_by(phone=From).first()
Rows(tbl, phone) == { i \in 1..Len(tbl) : tbl[i].phone = phone }

\* The mutant of PrimaryKeyFree: a table without the primary key.
NoPrimaryKey(tbl, phone) == TRUE

\* phone = Column(String, primary_key=True): an insert commits only if no row has the key.
PrimaryKeyFree(tbl, phone) == Rows(tbl, phone) = {}

\* twilio.messages.create returns: Twilio has accepted one more message.  ref
\* names the run or the push the message is about; it is not part of the message.
Sent(box, msg) == box (+) SetToBag({ msg })

\* The handler leaves by `raise`: the webhook caller gets an error.
Raised(h, e) == [ h EXCEPT !.pc = "done", !.result = "error", !.err = e ]

\* The handler leaves by `return text`.
Returned(h, text) == [ h EXCEPT !.pc = "done", !.result = text ]

\* ------------------------------------------------------------- sms_reply
\* The task a handler pushes: {'phone': From, 'problem_id': pid.strip(), 'contrib': clarified}
Task(h) == [ phone |-> h.From, problem_id |-> Strip(h.pid), contrib |-> h.clarified ]

\* A mutant of Classify: a body with nothing but whitespace after the colon is
\* turned away with the format hint.
ClassifyRejectsBlank(h) ==
    IF HasColon(h.Body) /\ Strip(Split1(h.Body)[2]) # <<>>
    THEN LET parts == Split1(h.Body)
         IN  [ h EXCEPT !.pc = "clarify", !.pid = parts[1], !.contrib = parts[2] ]
    ELSE Returned(h, "Format")

\* A mutant of Classify: the `':' in Body` test dropped, every body is split.
ClassifyNoTest(h) ==
    LET parts == Split1(h.Body)
    IN  [ h EXCEPT !.pc = "clarify", !.pid = parts[1],
                   !.contrib = IF Len(parts) > 1 THEN parts[2] ELSE <<>> ]

\* `if ':' in Body: pid, contrib = Body.split(':', 1)`, else the format hint is returned.
Classify(h) ==
    IF HasColon(h.Body)
    THEN LET parts == Split1(h.Body)
         IN  [ h EXCEPT !.pc = "clarify", !.pid = parts[1], !.contrib = parts[2] ]
    ELSE Returned(h, "Format")

\* The mutant of AfterWelcome: the `return "Subscribed"` is missing and the
\* handler goes on to parse the body.
AfterWelcomeFallsThrough(h) == Classify(h)

\* `return "Subscribed"` after the welcome notification.
AfterWelcome(h) == Returned(h, "Subscribed")

\* The mutant of OnWriteFailure: the exception of the write is swallowed and the
\* handler goes on to its notification.
SwallowWriteFailure(h, e) ==
    [ h EXCEPT !.pc = IF h.pc = "commit" THEN "welcome" ELSE "ack", !.err = e ]

\* db.commit() or r.rpush raises: `except Exception: db.rollback(); raise`.
OnWriteFailure(h, e) == Raised(h, e)

\* The request arrives: sms_reply(From, Body) starts, db = Session().
\* Messages are numbered in the order they arrive.
Arrive(m, from, body) ==
    /\ hs[m].pc = "idle"
    /\ \A k \in Msgs : k < m => hs[k].pc # "idle"
    /\ hs' = [ hs EXCEPT ![m] = [ IdleHandler EXCEPT !.pc = "query", !.From = from, !.Body = body ] ]
    /\ UNCHANGED << subscribers, queue, outbox, ws, pops, pushes >>

\* A message with one of the sample bodies arrives.
Receive(m) ==
    /\ hs[m].pc = "idle"
    /\ \E from \in Identities, body \in SampleBodies : Arrive(m, from, body)

\* sub = db.query(Subscriber).filter_by(phone=From).first(); `if not sub` adds
\* the new row to the session, otherwise the body is classified.
Query(m) ==
    /\ hs[m].pc = "query"
    /\ hs' = [ hs EXCEPT ![m] =
                 IF Rows(subscribers, hs[m].From) = {}
                 THEN [ hs[m] EXCEPT !.pc = "commit", !.sub = "absent" ]
                 ELSE Classify([ hs[m] EXCEPT !.sub = "found" ]) ]
    /\ UNCHANGED << subscribers, queue, outbox, ws, pops, pushes >>

\* The query raises (the database is unreachable).
QueryFail(m) ==
    /\ hs[m].pc = "query"
    /\ hs' = [ hs EXCEPT ![m] = Raised(hs[m], "StorageUnavailable") ]
    /\ UNCHANGED << subscribers, queue, outbox, ws, pops, pushes >>

\* db.commit() of the added row: the insert succeeds, or the primary key
\* refuses it (IntegrityError) and the handler raises.
Commit(m) ==
    /\ hs[m].pc = "commit"
    /\ IF PrimaryKeyFree(subscribers, hs[m].From)
       THEN /\ subscribers' = Append(subscribers, Subscriber(hs[m].From))
            /\ hs' = [ hs EXCEPT ![m].pc = "welcome" ]
       ELSE /\ subscribers' = subscribers
            /\ hs' = [ hs EXCEPT ![m] = OnWriteFailure(hs[m], "IntegrityError") ]
    /\ UNCHANGED << queue, outbox, ws, pops, pushes >>

\* db.commit() raises because the database is unreachable: nothing is inserted.
CommitFail(m) ==
    /\ hs[m].pc = "commit"
    /\ hs' = [ hs EXCEPT ![m] = OnWriteFailure(hs[m], "StorageUnavailable") ]
    /\ UNCHANGED << subscribers, queue, outbox, ws, pops, pushes >>

\* twilio.messages.create(to=From, body='Subscribed ...'); return "Subscribed"
Welcome(m) ==
    /\ hs[m].pc = "welcome"
    /\ outbox' = Sent(outbox, [ to |-> hs[m].From, kind |-> "welcome", ref |-> m ])
    /\ hs' = [ hs EXCEPT ![m] = AfterWelcome(hs[m]) ]
    /\ UNCHANGED << subscribers, queue, ws, pops, pushes >>

\* A mutant of Rollback: the rollback takes the row of the identity out again.
RollbackUndoesInsert(tbl, phone) == SelectSeq(tbl, LAMBDA row : row.phone # phone)

\* db.rollback() after db.commit() has returned: the transaction of the insert
\* is over, the table keeps its rows.
Rollback(tbl, phone) == tbl

\* The welcome send raises: `except Exception: db.rollback(); raise`.  The
\* insert is already committed, the rollback undoes nothing.
WelcomeFail(m) ==
    /\ hs[m].pc = "welcome"
    /\ hs' = [ hs EXCEPT ![m] = Raised(hs[m], "TwilioError") ]
    /\ subscribers' = Rollback(subscribers, hs[m].From)
    /\ UNCHANGED << queue, outbox, ws, pops, pushes >>

\* resp = openai.ChatCompletion.create(...); clarified = resp.choices[0].message.content
Clarify(m) ==
    /\ hs[m].pc = "clarify"
    /\ \E text \in ClarifierReplies(hs[m].pid, hs[m].contrib) :
          hs' = [ hs EXCEPT ![m].pc = "rpush", ![m].clarified = text ]
    /\ UNCHANGED << subscribers, queue, outbox, ws, pops, pushes >>

\* The Clarifier call raises (timeout, upstream error, rate limit): no handler
\* catches it before the outer `except`, which raises it again.
ClarifyFail(m) ==
    /\ hs[m].pc = "clarify"
    /\ hs' = [ hs EXCEPT ![m] = Raised(hs[m], "ClarifierError") ]
    /\ UNCHANGED << subscribers, queue, outbox, ws, pops, pushes >>

\* The mutant of CanPush: the list has a capacity and rpush waits while it is full.
CanPushBounded(q) == Len(q) < 1

\* r.rpush never waits: a Redis list has no capacity and the call does not
\* depend on any consumer.
CanPush(q) == TRUE

\* The mutant of Enqueue: a task equal to a queued one is not appended again.
EnqueueDedup(q, item) ==
    IF \E k \in 1..Len(q) : q[k].payload = item.payload THEN q ELSE Append(q, item)

\* The list operation of r.rpush: the entry is appended to the tail.
Enqueue(q, item) == Append(q, item)

\* r.rpush('tasks', json.dumps({...})): the encoded task is appended to the tail.
\* uid names the push (the message it was made for); it is not part of the payload.
Rpush(m) ==
    /\ hs[m].pc = "rpush"
    /\ CanPush(queue)
    /\ queue' = Enqueue(queue, [ uid |-> m, payload |-> JsonDumps(Task(hs[m])) ])
    /\ pushes' = IF queue' # queue THEN Append(pushes, m) ELSE pushes
    /\ hs' = [ hs EXCEPT ![m].pc = "ack" ]
    /\ UNCHANGED << subscribers, outbox, ws, pops >>

\* r.rpush raises (Redis is unreachable): nothing is appended.
RpushFail(m) ==
    /\ hs[m].pc = "rpush"
    /\ hs' = [ hs EXCEPT ![m] = OnWriteFailure(hs[m], "QueueUnavailable") ]
    /\ UNCHANGED << subscribers, queue, outbox, ws, pops, pushes >>

\* twilio.messages.create(to=From, body='Contribution received for Problem
\* {pid.strip()}. Queued for review.'); return "Received"
Ack(m) ==
    /\ hs[m].pc = "ack"
    /\ outbox' = Sent(outbox, [ to |-> hs[m].From, kind |-> "ack", ref |-> m ])
    /\ hs' = [ hs EXCEPT ![m] = Returned(hs[m], "Received") ]
    /\ UNCHANGED << subscribers, queue, ws, pops, pushes >>

\* A mutant of AfterAckFailure: the handler takes its task out of the list again.
WithdrawOnAckFailure(q, m) == SelectSeq(q, LAMBDA e : e.uid # m)

\* `except Exception as e: db.rollback(); raise` after the rpush has returned:
\* the rollback is of the database session, the list is left as it is.
AfterAckFailure(q, m) == q

\* The acknowledgment send raises: the handler raises, the pushed task stays queued.
AckFail(m) ==
    /\ hs[m].pc = "ack"
    /\ hs' = [ hs EXCEPT ![m] = Raised(hs[m], "TwilioError") ]
    /\ queue' = AfterAckFailure(queue, m)
    /\ UNCHANGED << subscribers, outbox, ws, pops, pushes >>

\* ------------------------------------------------------------- process_tasks
\* A mutant of Lpop: the tail is removed and returned, as brpop does.
Rpop(q) == [ item |-> q[Len(q)], rest |-> SubSeq(q, 1, Len(q) - 1) ]

\* A mutant of Lpop: the head is read and left in the list.
Lpeek(q) == [ item |-> Head(q), rest |-> q ]

\* The list operation of r.blpop('tasks'): the head is removed and returned, in one step.
Lpop(q) == [ item |-> Head(q), rest |-> Tail(q) ]

\* The mutant of OnDecodeError: JSONDecodeError is not caught and ends the thread.
CrashOnDecodeError(wk) == [ wk EXCEPT !.pc = "dead" ]

\* `except json.JSONDecodeError as e: print(...)`: the item is dropped and the
\* loop goes on with the next blpop.
OnDecodeError(wk) == IdleWorker

\* item_tuple = r.blpop('tasks', timeout=1) returns an item; data = json.loads(item)
\* decodes it or raises JSONDecodeError.
Blpop(w) ==
    /\ ws[w].pc = "blpop"
    /\ queue # <<>>
    /\ LET got == Lpop(queue)
       IN  /\ queue' = got.rest
           /\ ws' = [ ws EXCEPT ![w] =
                        IF JsonValid(got.item.payload)
                        THEN [ pc |-> "notify", item |-> got.item.payload,
                               uid |-> got.item.uid ]
                        ELSE OnDecodeError(ws[w]) ]
           /\ pops' = [ pops EXCEPT ![got.item.uid] = @ + 1 ]
    /\ UNCHANGED << subscribers, outbox, hs, pushes >>

\* r.blpop returns None after the timeout: the list was empty.  `else: if not
\* item_tuple: time.sleep(0.1)`, and the loop is back at blpop with nothing changed.
BlpopTimeout(w) ==
    /\ ws[w].pc = "blpop"
    /\ queue = <<>>
    /\ UNCHANGED vars

\* The mutant of Recipient: the result goes to the service's own number.
RecipientIsService(data) == "TWILIO_PHONE_NUMBER"

\* to=data['phone']
Recipient(data) == data.phone

\* twilio.messages.create(to=data['phone'], body="Accepted and credited.")
Notify(w) ==
    /\ ws[w].pc = "notify"
    /\ outbox' = Sent(outbox, [ to |-> Recipient(JsonLoads(ws[w].item)), kind |-> "result",
                                  ref |-> ws[w].uid ])
    /\ ws' = [ ws EXCEPT ![w] = IdleWorker ]
    /\ UNCHANGED << subscribers, queue, hs, pops, pushes >>

\* The mutant of AfterSendFailure: the item whose send failed is pushed back.
RequeueOnSendFailure(q, entry) == Append(q, entry)

\* `except Exception as e: print(...)`: the list is left as it is.
AfterSendFailure(q, entry) == q

\* The result send raises: `except Exception` prints it and the loop goes on.
NotifyFail(w) ==
    /\ ws[w].pc = "notify"
    /\ ws' = [ ws EXCEPT ![w] = IdleWorker ]
    /\ queue' = AfterSendFailure(queue, [ uid |-> ws[w].uid, payload |-> ws[w].item ])
    /\ UNCHANGED << subscribers, outbox, hs, pops, pushes >>

\* Another client of the Redis server pushes an entry that is not JSON.
ForeignPush ==
    /\ Cardinality({ k \in 1..Len(pushes) : pushes[k] = ForeignUid }) < MaxForeign
    /\ queue' = Append(queue, [ uid |-> ForeignUid, payload |-> Malformed ])
    /\ pushes' = Append(pushes, ForeignUid)
    /\ UNCHANGED << subscribers, outbox, hs, ws, pops >>

\* ------------------------------------------------------------- specifications
HandlerStep(m) ==
    \/ Query(m)
    \/ QueryFail(m)
    \/ Commit(m)
    \/ CommitFail(m)
    \/ Welcome(m)
    \/ WelcomeFail(m)
    \/ Clarify(m)
    \/ ClarifyFail(m)
    \/ Rpush(m)
    \/ RpushFail(m)
    \/ Ack(m)
    \/ AckFail(m)

WorkerStep(w) ==
    \/ Blpop(w)
    \/ BlpopTimeout(w)
    \/ Notify(w)
    \/ NotifyFail(w)

Next ==
    \/ \E m \in Msgs : Receive(m) \/ HandlerStep(m)
    \/ \E w \in Workers : WorkerStep(w)

\* The pipeline: MaxMsgs messages with sample bodies handled concurrently,
\* NumWorkers loops draining the queue.
Spec == Init /\ [][Next]_vars

NextForeign == Next \/ ForeignPush

\* The pipeline with a foreign producer and with every process_tasks loop
\* running on: a loop that can take a step (a blpop that returns an item, a
\* send that returns or raises) eventually takes one.
SpecFair ==
    /\ Init
    /\ [][NextForeign]_vars
    /\ \A w \in Workers : WF_vars(WorkerStep(w))

\* A message with any body of at most MaxBodyLen characters arrives.
ReceiveAny(m) ==
    /\ hs[m].pc = "idle"
    /\ \E from \in Identities, body \in AllBodies : Arrive(m, from, body)

\* The first message.
FirstMsg == CHOOSE m \in Msgs : \A k \in Msgs : m <= k

NextParse ==
    \/ ReceiveAny(FirstMsg) \/ HandlerStep(FirstMsg)
    \/ \E w \in Workers : WorkerStep(w)

\* Parsing: one message with an arbitrary body goes through the pipeline.
SpecParse == Init /\ [][NextParse]_vars

\* ------------------------------------------------------------- vocabulary of the claims
\* The entries of the queue that were pushed for message m.
QueuedFor(m) == { k \in 1..Len(queue) : queue[k].uid = m }

\* A task was pushed for message m: it is queued, or a worker has popped it.
Pushed(m) == QueuedFor(m) # {} \/ pops[m] > 0

\* The notifications of a kind that Twilio accepted from the run for message m.
Notified(m, kind) == { msg \in BagToSet(outbox) : msg.ref = m /\ msg.kind = kind }

\* The runs that have ended for messages from identity p.
DoneFrom(p) == { m \in Msgs : hs[m].pc = "done" /\ hs[m].From = p }

\* The body holds no colon.
NoColon(b) == \A i \in 1..Len(b) : b[i] # ":"

\* Position i holds the first colon of b.
IsFirstColon(b, i) == i \in 1..Len(b) /\ b[i] = ":" /\ \A j \in 1..(i - 1) : b[j] # ":"

\* t is s without its leading and trailing whitespace.
IsTrimOf(t, s) ==
    /\ t = <<>> \/ (t[1] \notin Whitespace /\ t[Len(t)] \notin Whitespace)
    /\ \E a \in 0..Len(s) :
          /\ a + Len(t) <= Len(s)
          /\ t = SubSeq(s, a + 1, a + Len(t))
          /\ \A j \in 1..a : s[j] \in Whitespace
          /\ \A j \in (a + Len(t) + 1)..Len(s) : s[j] \in Whitespace

\* The run failed at its durable write: the commit of the insert or the rpush.
WriteFailed(h) ==
    \/ h.sub = "absent" /\ h.err \in {"StorageUnavailable", "IntegrityError"}
    \/ h.err = "QueueUnavailable"

\* Errors that come from a collaborator being down, not from the handler's logic.
Outages == {"StorageUnavailable", "QueueUnavailable", "TwilioError", "ClarifierError"}

\* ------------------------------------------------------------- claims
\* C1: when several messages from one identity have been handled and no
\* collaborator was down, exactly one run reports the new-subscriber branch
\* ("Subscribed") and no run ends in an error: the other runs are served as for an
\* existing subscriber.
C1_ExactlyOneCreatedNoError ==
    \A p \in Identities :
        (/\ Rows(subscribers, p) # {}
         /\ Cardinality(DoneFrom(p)) >= 2
         /\ \E m \in DoneFrom(p) : hs[m].sub = "absent"
         /\ \A m \in DoneFrom(p) : hs[m].err \notin Outages)
        => /\ Cardinality({ m \in DoneFrom(p) : hs[m].result = "Subscribed" }) = 1
           /\ \A m \in DoneFrom(p) : hs[m].result # "error"

\* C2: the table holds at most one row for every identity.
C2_OneRecordPerIdentity ==
    \A p \in Identities : Cardinality(Rows(subscribers, p)) <= 1

\* C2's case: two messages from one identity are handled, the first subscribes
\* it, the second has ended, and the identity has its one row.
C2_Witness ==
    \E m1, m2 \in Msgs :
        /\ m1 # m2
        /\ hs[m1].From = hs[m2].From
        /\ hs[m1].result = "Subscribed"
        /\ hs[m2].pc = "done"
        /\ Cardinality(Rows(subscribers, hs[m1].From)) = 1

\* C3: no two running handlers for one identity have both finished their
\* lookup with the result "absent".
C3_NoTwoObserveAbsent ==
    \A m1, m2 \in Msgs :
        (m1 # m2 /\ hs[m1].From = hs[m2].From)
        => ~ (/\ hs[m1].pc \notin {"idle", "done"} /\ hs[m1].sub = "absent"
              /\ hs[m2].pc \notin {"idle", "done"} /\ hs[m2].sub = "absent")

\* C4: a run whose lookup found no row for the sender never pushes a task and
\* never reaches the contribution steps, whatever the body.
C4_FirstMessageNeverQueued ==
    \A m \in Msgs :
        hs[m].sub = "absent"
        => /\ ~ Pushed(m)
           /\ hs[m].pc \in {"commit", "welcome", "done"}
           /\ hs[m].result \in {"none", "Subscribed", "error"}

\* C4's case: two first messages from one new identity, both with a body of
\* the contribution format, were handled concurrently (both lookups found no
\* row) and both runs have ended.
C4_Witness ==
    \E m1, m2 \in Msgs :
        /\ m1 # m2
        /\ hs[m1].From = hs[m2].From
        /\ hs[m1].sub = "absent" /\ hs[m2].sub = "absent"
        /\ ~ NoColon(hs[m1].Body) /\ ~ NoColon(hs[m2].Body)
        /\ hs[m1].result = "Subscribed" /\ hs[m2].pc = "done"

\* C5: a run whose Clarifier call failed has still pushed its task, with the
\* trimmed free text as content, and has sent the acknowledgment.
C5_ClarifierFailureStillQueues ==
    \A m \in Msgs :
        (hs[m].pc = "done" /\ hs[m].err = "ClarifierError")
        => /\ Pushed(m)
           /\ \A k \in QueuedFor(m) :
                 IsTrimOf(JsonLoads(queue[k].payload).contrib, hs[m].contrib)
           /\ Notified(m, "ack") # {}

\* A welcome was sent only by a run whose insert is committed, an
\* acknowledgment only by a run whose task was pushed.
AckAfterWrite ==
    \A msg \in BagToSet(outbox) :
        /\ msg.kind = "welcome"
              => Rows(subscribers, msg.to) # {} /\ ~ WriteFailed(hs[msg.ref])
        /\ msg.kind = "ack" => Pushed(msg.ref)

\* A run whose durable write failed ends in an error and has sent nothing.
FailedWriteSilent ==
    \A m \in Msgs :
        WriteFailed(hs[m])
        => /\ hs[m].pc = "done" /\ hs[m].result = "error"
           /\ Notified(m, "welcome") = {} /\ Notified(m, "ack") = {}

\* The step in which a durable write fails changes neither the table nor the queue.
FailedWriteChangesNothing ==
    \A m \in Msgs :
        (~ WriteFailed(hs[m]) /\ WriteFailed(hs'[m]))
        => subscribers' = subscribers /\ queue' = queue

\* C6: a notification of sms_reply is sent only after the durable write before
\* it has succeeded; a failed write ends the run in an error without a
\* notification and leaves the table and the queue as they were.
C6_AckOnlyAfterDurableWrite ==
    [][ AckAfterWrite' /\ FailedWriteSilent' /\ FailedWriteChangesNothing ]_vars

\* C6's case: one run has sent its welcome after its insert, and another run's
\* rpush has failed.
C6_Witness ==
    \E m1, m2 \in Msgs :
        /\ Notified(m1, "welcome") # {}
        /\ hs[m2].pc = "done" /\ hs[m2].err = "QueueUnavailable"

\* C7: a run whose notification send failed still returns its normal response.
C7_SendFailureNotRaised ==
    \A m \in Msgs :
        (hs[m].pc = "done" /\ hs[m].err = "TwilioError")
        => hs[m].result \in {"Subscribed", "Received"}

\* The task queued at position k has the trimmed text before the first colon
\* of its message as problem_id.
ProblemRefOf(k) ==
    LET b == hs[queue[k].uid].Body
        d == JsonLoads(queue[k].payload)
    IN  \E i \in 1..Len(b) :
           /\ IsFirstColon(b, i)
           /\ IsTrimOf(d.problem_id, SubSeq(b, 1, i - 1))

UnformattedLeavesNoTask ==
    \A m \in Msgs :
        (hs[m].pc # "idle" /\ NoColon(hs[m].Body))
        => /\ ~ Pushed(m)
           /\ (hs[m].pc = "done" /\ hs[m].sub = "found") => hs[m].result = "Format"

\* Every step of a run for a body without a colon, taken while the sender has
\* a row, leaves the table and the queue as they are.
UnformattedStepChangesNothing ==
    \A m \in Msgs :
        (/\ hs'[m] # hs[m]
         /\ hs[m].pc # "idle"
         /\ NoColon(hs[m].Body)
         /\ Rows(subscribers, hs[m].From) # {})
        => subscribers' = subscribers /\ queue' = queue

\* C9: handling an unformatted message from an existing subscriber pushes
\* nothing and changes no row: table and queue are the same after as before.
C9_UnformattedChangesNothing ==
    [][ UnformattedStepChangesNothing /\ UnformattedLeavesNoTask' ]_vars

\* C9's case: a run for an unformatted body found the sender's row and has
\* returned the format hint.
C9_Witness ==
    \E m \in Msgs :
        /\ hs[m].sub = "found"
        /\ NoColon(hs[m].Body)
        /\ hs[m].result = "Format"

\* C10: every pushed task is returned by at most one blpop, and no two
\* workers hold the same task.
C10_AtMostOnePopPerItem ==
    /\ \A m \in Msgs : pops[m] <= 1
    /\ \A w1, w2 \in Workers :
          (w1 # w2 /\ ws[w1].pc = "notify" /\ ws[w2].pc = "notify")
          => ws[w1].uid # ws[w2].uid

\* C10's case: two tasks were pushed and two workers hold one each.
C10_Witness ==
    \E w1, w2 \in Workers :
        /\ w1 # w2
        /\ ws[w1].pc = "notify" /\ ws[w2].pc = "notify"
        /\ pops[ws[w1].uid] = 1 /\ pops[ws[w2].uid] = 1

\* The workers that hold the item of push u, between its blpop and its send.
Holding(u) == { w \in Workers : ws[w].pc = "notify" /\ ws[w].uid = u }

\* rpush has completed for push u.
WasPushed(u) == \E k \in 1..Len(pushes) : pushes[k] = u

\* The item of push u was popped and the round of the loop for it is over.
Released(u) == pops[u] >= 1 /\ Holding(u) = {}

\* Identity p has a row in the table.
HasRecord(p) == \E i \in 1..Len(subscribers) : subscribers[i].phone = p

\* A blpop on the empty list hands the loop nothing and leaves it at blpop.
PopOnEmptyReturnsNone ==
    \A w \in Workers :
        (ws[w].pc = "blpop" /\ queue = <<>>)
        => ws'[w] = ws[w] /\ pops' = pops

\* A blpop on a list of one entry returns that entry and leaves the list empty.
PopOnSingletonReturnsIt ==
    \A w \in Workers :
        (ws[w].pc = "blpop" /\ ws'[w] # ws[w] /\ Len(queue) = 1)
        => /\ ws'[w].pc = "notify"
           /\ ws'[w].item = queue[1].payload
           /\ ws'[w].uid = queue[1].uid
           /\ pops' = [ pops EXCEPT ![queue[1].uid] = @ + 1 ]
           /\ queue' = <<>>

\* C11: blpop on the empty list returns nothing and the loop goes on; after one
\* push onto the empty list the next blpop returns exactly that entry and
\* removes it, so that the list is empty again for the blpop after it.
C11_PopOnEmptyAndSingleton ==
    [][ PopOnEmptyReturnsNone /\ PopOnSingletonReturnsIt ]_vars

\* C11's case: one push was made onto the empty list, a loop has popped it,
\* the list is empty again and another loop is polling it.
C11_Witness ==
    \E w1, w2 \in Workers :
        /\ w1 # w2
        /\ Len(pushes) = 1
        /\ ws[w1].pc = "notify" /\ ws[w1].uid = pushes[1]
        /\ queue = <<>>
        /\ ws[w2].pc = "blpop"

\* Everything that rpush can have put in the list: the tasks of the runs and the
\* foreign entry.
Uids == Msgs \cup { ForeignUid }

\* How many pushes of u have completed.
PushCount(u) == Cardinality({ k \in 1..Len(pushes) : pushes[k] = u })

\* Nothing of push u is left to do: it was popped, it is not in the list and no
\* loop holds it.
Drained(u) == pops[u] >= 1 /\ QueuedFor(u) = {} /\ Holding(u) = {}

\* No loop has ended, and an entry that does not decode is dropped at its pop:
\* no loop holds it, no notification is about it, and it is in the list or popped.
BadItemDiscarded ==
    /\ \A w \in Workers : ws[w].pc \in { "blpop", "notify" }
    /\ Holding(ForeignUid) = {}
    /\ \A msg \in BagToSet(outbox) : msg.ref # ForeignUid
    /\ Cardinality(QueuedFor(ForeignUid)) + pops[ForeignUid] = PushCount(ForeignUid)

\* C12: an entry that fails to decode is discarded and the loop keeps running:
\* no loop ends, no notification is sent for the entry, and every entry pushed,
\* before or after it, is popped and its round of the loop completed.
C12_BadItemDiscardedLoopRunsOn ==
    /\ [] BadItemDiscarded
    /\ \A u \in Uids : WasPushed(u) ~> Drained(u)

\* C12's case: a task, then an entry that does not decode, then a task were
\* pushed; all three were popped and the loops are back at blpop.
C12_Witness ==
    /\ Len(pushes) = 3
    /\ pushes[1] # ForeignUid /\ pushes[2] = ForeignUid /\ pushes[3] # ForeignUid
    /\ \A u \in Uids : Drained(u)
    /\ \A w \in Workers : ws[w].pc = "blpop"
    /\ \A m \in Msgs : Notified(m, "result") # {}

\* The result notification for the task of message m, addressed to its sender.
ResultFor(m) == [ to |-> hs[m].From, kind |-> "result", ref |-> m ]

\* A task is popped at most once, and the only result notification about it is
\* one copy of the one addressed to the sender of its message.
OneResultToOrigin ==
    \A m \in Msgs :
        /\ pops[m] <= 1
        /\ Notified(m, "result") \subseteq { ResultFor(m) }
        /\ CopiesIn(ResultFor(m), outbox) <= 1
        /\ Notified(m, "result") # {} => Drained(m)

\* The step that ends the round of a loop for a task is its one send: Twilio
\* accepts the result addressed to the sender, or the send fails and nothing is sent.
RoundEndsWithOneAttempt ==
    \A w \in Workers :
        (ws[w].pc = "notify" /\ ws'[w] # ws[w] /\ ws[w].uid \in Msgs)
        => /\ ws'[w].pc = "blpop"
           /\ \/ outbox' = outbox
              \/ outbox' = outbox (+) SetToBag({ ResultFor(ws[w].uid) })

\* C13: with every loop running on, every task that was pushed is popped, once,
\* and its round ends with one send of the result, addressed to the sender of
\* the message the task came from.
C13_PushedTaskGetsOneResultAttempt ==
    /\ [] OneResultToOrigin
    /\ [][ RoundEndsWithOneAttempt ]_vars
    /\ \A m \in Msgs : WasPushed(m) ~> Drained(m)

\* C13's case: the tasks of two messages were pushed and popped; the send for
\* one was accepted, the send for the other failed.
C13_Witness ==
    \E m1, m2 \in Msgs :
        /\ WasPushed(m1) /\ Drained(m1) /\ CopiesIn(ResultFor(m1), outbox) = 1
        /\ WasPushed(m2) /\ Drained(m2) /\ Notified(m2, "result") = {}

\* The names of the entries of the list, head first.
QueuedUids == [ k \in 1..Len(queue) |-> queue[k].uid ]

\* The list holds the latest pushes, in the order of their completion, and the
\* pushes before them are the popped ones.
QueueIsSuffixOfPushes ==
    /\ Len(queue) <= Len(pushes)
    /\ QueuedUids = SubSeq(pushes, Len(pushes) - Len(queue) + 1, Len(pushes))
    /\ \A i, j \in 1..Len(pushes) :
          (i < j /\ pops[pushes[j]] >= 1) => pops[pushes[i]] >= 1

\* A push adds its entry at the tail; a pop takes the entry at the head, so
\* every push that completed earlier was popped before.
PushAtTailPopAtHead ==
    /\ pushes' # pushes
          => /\ Len(queue') = Len(queue) + 1
             /\ SubSeq(queue', 1, Len(queue)) = queue
             /\ pushes' = Append(pushes, queue'[Len(queue')].uid)
    /\ pops' # pops
          => /\ queue # <<>>
             /\ queue' = Tail(queue)
             /\ pops' = [ pops EXCEPT ![Head(queue).uid] = @ + 1 ]
             /\ \A i \in 1..Len(pushes) :
                   pops[pushes[i]] = 0 => \E k \in 1..Len(queue) : queue[k].uid = pushes[i]

\* C14: the list is first in, first out: rpush appends at the tail, blpop
\* removes the head, and of two pushes the one that completed first is popped
\* first, whichever loop pops.
C14_FifoAcrossWorkers ==
    /\ [] QueueIsSuffixOfPushes
    /\ [][ PushAtTailPopAtHead ]_vars

\* C14's case: two pushes completed, the earlier was popped by one loop and
\* the later, after it, by another.
C14_Witness ==
    \E w1, w2 \in Workers :
        /\ Len(pushes) = 2 /\ pushes[1] # pushes[2]
        /\ ws[w1].pc = "notify" /\ ws[w1].uid = pushes[1]
        /\ ws[w2].pc = "notify" /\ ws[w2].uid = pushes[2]

\* Loop w makes the step in which its send of the result fails.
SendFails(w) == ws[w].pc = "notify" /\ ws'[w] # ws[w] /\ outbox' = outbox

\* The failed send leaves the list as it is and puts the loop back at blpop.
FailedSendDropsItem ==
    \A w \in Workers :
        SendFails(w) => /\ ws'[w].pc = "blpop"
                        /\ queue' = queue
                        /\ pops' = pops
                        /\ \A m \in Msgs : ws[w].uid = m => Drained(m)'

\* A task whose round is over is out of the list for good, and if its send
\* failed no later step notifies about it.
DroppedStaysDropped ==
    \A m \in Msgs :
        Drained(m) => /\ Drained(m)'
                      /\ Notified(m, "result") = {} => (Notified(m, "result") = {})'

\* C15: a failed send of the result is logged and the loop goes on with the
\* next blpop; the task is not put back in the list and no notification about
\* it is sent later.
C15_FailedSendNotRetried ==
    [][ FailedSendDropsItem /\ DroppedStaysDropped ]_vars

\* C15's case: the send for the first task failed and the task is gone; the
\* loops have gone on and one of them holds the next task.
C15_Witness ==
    /\ Len(pushes) = 2
    /\ Drained(pushes[1]) /\ Notified(pushes[1], "result") = {}
    /\ Holding(pushes[2]) # {}
    /\ queue = <<>>

\* The runs for messages from identity p whose commit of the new row succeeded.
Creators(p) ==
    { m \in Msgs : /\ hs[m].From = p
                   /\ hs[m].sub = "absent"
                   /\ hs[m].pc \in { "welcome", "done" }
                   /\ hs[m].err \notin { "StorageUnavailable", "IntegrityError" } }

\* The welcome notifications that Twilio accepted for identity p.
WelcomesTo(p) == { msg \in BagToSet(outbox) : msg.kind = "welcome" /\ msg.to = p }

\* C16: whatever messages an identity sends and however their runs interleave,
\* at most one welcome notification goes to it, and the run that sent it is
\* the one whose insert created the row of the identity.
C16_WelcomeAtMostOnceByCreator ==
    \A p \in Identities :
        /\ Cardinality(Creators(p)) <= 1
        /\ Creators(p) # {} => HasRecord(p)
        /\ Cardinality(WelcomesTo(p)) <= 1
        /\ \A msg \in WelcomesTo(p) :
              /\ msg.ref \in Creators(p)
              /\ CopiesIn(msg, outbox) = 1

\* C16's case: two runs for one new identity both found no row; the insert of
\* one created the row and that run sent the welcome, the insert of the other
\* was refused and it sent nothing.
C16_Witness ==
    \E m1, m2 \in Msgs :
        /\ hs[m1].From = hs[m2].From
        /\ hs[m1].sub = "absent" /\ hs[m2].sub = "absent"
        /\ hs[m1].result = "Subscribed" /\ Notified(m1, "welcome") # {}
        /\ hs[m2].err = "IntegrityError" /\ Notified(m2, "welcome") = {}

\* The run for message m is in the branch of an existing subscriber with a
\* formatted body, before its return.
InContribution(m) == hs[m].sub = "found" /\ hs[m].pc \in { "clarify", "rpush", "ack" }

\* The next call of the run for message m can return now and take the run one
\* stage on, the last stage to its return of "Received".
CanGoOn(m) ==
    /\ hs[m].pc = "clarify" => ENABLED (Clarify(m) /\ hs'[m].pc = "rpush")
    /\ hs[m].pc = "rpush"
          => ENABLED (Rpush(m) /\ hs'[m].pc = "ack" /\ Len(queue') = Len(queue) + 1)
    /\ hs[m].pc = "ack"
          => ENABLED (Ack(m) /\ hs'[m].result = "Received" /\ hs'[m].pc = "done")

\* C17: the loops never hold up a handler: in every reachable state, wherever
\* each loop is and however long the list is, the run for a message of an
\* existing subscriber can make its next call, through the push and the
\* acknowledgment to its return.
C17_WorkerNeverBlocksIntake ==
    \A m \in Msgs : InContribution(m) => CanGoOn(m)

\* C17's case: a loop is stalled in its send with an item in hand and no result
\* was ever sent, and yet a later message was pushed behind it and acknowledged.
C17_Witness ==
    \E w \in Workers, m \in Msgs :
        /\ ws[w].pc = "notify" /\ ws[w].uid # m
        /\ \A msg \in BagToSet(outbox) : msg.kind # "result"
        /\ QueuedFor(m) # {}
        /\ hs[m].result = "Received" /\ Notified(m, "ack") # {}

\* The body is a problem reference, a colon, and after its first colon nothing
\* or only whitespace.
BlankAfterColon(b) ==
    \E i \in 1..Len(b) :
        IsFirstColon(b, i) /\ \A j \in (i + 1)..Len(b) : b[j] \in Whitespace

\* C18: a message of an existing subscriber whose body has nothing, or only
\* whitespace, after its colon is not turned away: unless a collaborator fails,
\* its run pushes a task and sends the acknowledgment.
C18_EmptyFreeTextStillQueued ==
    \A m \in Msgs :
        (hs[m].sub = "found" /\ BlankAfterColon(hs[m].Body))
        => /\ hs[m].result # "Format"
           /\ (hs[m].pc = "done" /\ hs[m].err = "none")
                 => /\ hs[m].result = "Received"
                    /\ WasPushed(m)
                    /\ CopiesIn([ to |-> hs[m].From, kind |-> "ack", ref |-> m ], outbox) = 1

\* C18's case: the body ends in whitespace after its colon; the run has
\* returned "Received" and its task, with an empty contribution, is in the list.
C18_Witness ==
    \E m \in Msgs :
        /\ BlankAfterColon(hs[m].Body) /\ hs[m].Body[Len(hs[m].Body)] \in Whitespace
        /\ hs[m].result = "Received"
        /\ \E k \in QueuedFor(m) : JsonLoads(queue[k].payload).contrib = <<>>

\* Messages m1 and m2 are the same formatted message from one existing
\* subscriber, and the runs for both have returned "Received".
ResentAndReceived(m1, m2) ==
    /\ m1 # m2
    /\ hs[m1].From = hs[m2].From /\ hs[m1].Body = hs[m2].Body
    /\ hs[m1].sub = "found" /\ hs[m2].sub = "found"
    /\ hs[m1].result = "Received" /\ hs[m2].result = "Received"

\* C19: when an existing subscriber sends the same formatted message twice,
\* each of the two runs pushes one task, two pushes in all, each in the list
\* until a loop pops it, and the table still holds one row for the subscriber.
C19_ResendQueuesTwiceOneRecord ==
    \A m1, m2 \in Msgs :
        ResentAndReceived(m1, m2)
        => /\ \A m \in { m1, m2 } :
                 /\ PushCount(m) = 1
                 /\ Cardinality(QueuedFor(m)) + pops[m] = 1
           /\ Len(pushes) >= 2
           /\ Cardinality({ i \in 1..Len(subscribers) : subscribers[i].phone = hs[m1].From }) = 1

\* C19's case: the message was sent twice and acknowledged twice; the list
\* holds two entries with the same content and the table one row.
C19_Witness ==
    \E m1, m2 \in Msgs :
        /\ ResentAndReceived(m1, m2)
        /\ Len(queue) = 2 /\ queue[1].payload = queue[2].payload
        /\ Len(subscribers) = 1

\* The identities named as 'phone' by the entries of the list and by the items
\* the loops hold.
PhonesInFlight ==
    { JsonLoads(queue[k].payload).phone : k \in 1..Len(queue) }
    \cup { JsonLoads(ws[w].item).phone : w \in { v \in Workers : ws[v].pc = "notify" } }

\* C20: the 'phone' of every task in the list, and of every task a loop is
\* processing, is an identity with a row in the table, and so is the
\* addressee of every result notification.
C20_TasksOnlyForSubscribers ==
    /\ \A p \in PhonesInFlight : HasRecord(p)
    /\ \A msg \in BagToSet(outbox) : msg.kind = "result" => HasRecord(msg.to)

\* C20's case: the table holds one identity and not the other; one task of
\* the subscriber is in the list and another is in the hands of a loop.
C20_Witness ==
    \E p \in Identities :
        /\ \E k \in 1..Len(queue) : JsonLoads(queue[k].payload).phone = p
        /\ \E w \in Workers : ws[w].pc = "notify" /\ JsonLoads(ws[w].item).phone = p
        /\ \E q \in Identities \ { p } : ~ HasRecord(q)

\* A run for identity p committed the new row and then its welcome send failed.
WelcomeFailedFor(p) ==
    \E m \in Msgs : /\ hs[m].From = p /\ hs[m].sub = "absent"
                    /\ hs[m].pc = "done" /\ hs[m].err = "TwilioError"

\* After the failed welcome the identity has its row and no welcome.
FailedWelcomeKeepsRecord ==
    \A p \in Identities :
        WelcomeFailedFor(p) => HasRecord(p) /\ WelcomesTo(p) = {}

\* The step of the failed welcome leaves the table as it is, and every lookup
\* made for the identity afterwards finds the row.
AfterFailedWelcomeFound ==
    /\ \A m \in Msgs :
          (hs[m].pc = "welcome" /\ hs'[m].err = "TwilioError") => subscribers' = subscribers
    /\ \A p \in Identities, m \in Msgs :
          (WelcomeFailedFor(p) /\ hs[m].From = p /\ hs[m].pc = "query" /\ hs'[m].sub # "none")
          => hs'[m].sub = "found" /\ hs'[m].pc # "commit"

\* C21: when the welcome send fails after the insert was committed, the row
\* stays in the table; every message of the identity handled afterwards takes
\* the branch of an existing subscriber, and no welcome is ever sent to it.
C21_FailedWelcomeLeavesSubscriberUnwelcomed ==
    /\ [] FailedWelcomeKeepsRecord
    /\ [][ AfterFailedWelcomeFound ]_vars

\* C21's case: the welcome of the first message failed; the next message of
\* the identity was handled as a contribution, and the identity has no welcome.
C21_Witness ==
    \E m1, m2 \in Msgs :
        /\ hs[m1].From = hs[m2].From
        /\ hs[m1].sub = "absent" /\ hs[m1].err = "TwilioError"
        /\ hs[m2].sub = "found" /\ hs[m2].result = "Received"
        /\ WelcomesTo(hs[m1].From) = {}

\* The run for message m pushed its task and then its acknowledgment send failed.
AckFailed(m) == hs[m].sub = "found" /\ hs[m].pc = "done" /\ hs[m].err = "TwilioError"

\* Message m2 is message m1 sent again, and its run has got past its rpush.
ResentAfterPush(m1, m2) ==
    /\ m1 # m2
    /\ hs[m2].From = hs[m1].From /\ hs[m2].Body = hs[m1].Body
    /\ hs[m2].sub = "found"
    /\ hs[m2].pc = "ack" \/ (hs[m2].pc = "done" /\ hs[m2].err \in { "none", "TwilioError" })

\* The step of the failed acknowledgment ends the run in an error and leaves
\* the list, with the task in it or already popped, as it is.
FailedAckKeepsTask ==
    \A m \in Msgs :
        (hs[m].pc = "ack" /\ hs'[m].err = "TwilioError")
        => /\ hs'[m].pc = "done" /\ hs'[m].result = "error"
           /\ queue' = queue /\ pushes' = pushes /\ pops' = pops
           /\ Cardinality(QueuedFor(m)) + pops[m] = 1

\* The task of a run whose acknowledgment failed was pushed once and is in the
\* list or popped; the same message sent again adds a push of its own.
FailedAckTaskCounted ==
    \A m1 \in Msgs :
        AckFailed(m1)
        => /\ PushCount(m1) = 1
           /\ Cardinality(QueuedFor(m1)) + pops[m1] = 1
           /\ \A m2 \in Msgs :
                 ResentAfterPush(m1, m2)
                 => /\ PushCount(m2) = 1
                    /\ Cardinality(QueuedFor(m2)) + pops[m2] = 1
                    /\ Len(pushes) >= 2

\* C22: when the acknowledgment send fails after the rpush, the run ends in an
\* error but its task stays in the list and a loop pops and processes it; the
\* same message sent again then puts a second task in the list.
C22_FailedAckTaskStillProcessed ==
    /\ [] FailedAckTaskCounted
    /\ [][ FailedAckKeepsTask ]_vars
    /\ \A m \in Msgs : AckFailed(m) ~> (AckFailed(m) /\ Drained(m))

\* C22's case: the acknowledgment of the first message failed, a loop has
\* processed its task and sent the result; the message was sent again and a
\* second task with the same content is in the list.
C22_Witness ==
    \E m1, m2 \in Msgs :
        /\ AckFailed(m1) /\ Drained(m1) /\ Notified(m1, "result") # {}
        /\ ResentAfterPush(m1, m2)
        /\ \E k \in QueuedFor(m2) : queue[k].payload = JsonDumps(Task(hs[m1]))

====
